---- MODULE Spec2Model ----
(***************************************************************************)
(* Model of src/app.py: the anchor-peak calibration and nearest-neighbour  *)
(* matching of calculate_shift_and_match, over the built-in retention      *)
(* time table of get_standard_data.                                        *)
(*                                                                         *)
(* Times are integers in thousandths of a minute, the resolution of the    *)
(* std_time column (11.972 is 11972, the search window 1.5 is 1500); sums  *)
(* and differences of such values are exact.  So is the float64 shift of   *)
(* the source: a time t in the window of 11.972 is within a factor 2 of    *)
(* it, hence t - 11.972 has no rounding error and 11.972 + shift is t.     *)
(*                                                                         *)
(* A DataFrame is a sequence of rows, a row is a record of its columns.    *)
(* DataFrames are objects: heap maps an object to its rows, so that a      *)
(* write through one name of an object is seen through every other name.   *)
(* Two strings of the source are not ASCII and are written as follows:     *)
(*   "未知"      (the label of an unmatched peak)  ->  "unknown"           *)
(*   '匹配结果'  (the result column)               ->  match_result        *)
(*   'C20:4n-6（ARA）'                             ->  "C20:4n-6(ARA)"     *)
(* and the column 'fatty acid' is the field fatty_acid.                    *)
(***************************************************************************)
EXTENDS Integers, Sequences, FiniteSets, TLC

VARIABLES
    heap,             \* object -> rows: df_sample, std_df, results, candidates, current_std
    results,          \* local `results`: the object it names ("None" before line 77)
    area_col,         \* argument area_col
    tolerance,        \* argument tolerance
    pc,               \* "start", "match" (loop of line 133), "done" (returned), "raised"
    shift,            \* local shift
    found_c14,        \* local found_c14
    c14_actual_time,  \* local c14_actual_time
    matched_names,    \* local matched_names
    raised            \* the exception that left the function, "None" if none

vars == <<heap, results, area_col, tolerance, pc, shift, found_c14,
          c14_actual_time, matched_names, raised>>

\* the two arguments that are DataFrames
df_sample == heap["df_sample"]
std_df == heap["std_df"]

Abs(x) == IF x < 0 THEN -x ELSE x

Reverse(s) == [i \in 1..Len(s) |-> s[Len(s) + 1 - i]]

-----------------------------------------------------------------------------
(* The built-in reference table.                                           *)

get_standard_data ==
    << [fatty_acid |-> "C14:0",            std_time |-> 11972],
       [fatty_acid |-> "C14:1",            std_time |-> 12299],
       [fatty_acid |-> "C16:0",            std_time |-> 14611],
       [fatty_acid |-> "C16:1",            std_time |-> 14787],
       [fatty_acid |-> "C18:0",            std_time |-> 16261],
       [fatty_acid |-> "C18:1n-9",         std_time |-> 17251],
       [fatty_acid |-> "C18:1n-7",         std_time |-> 17750],
       [fatty_acid |-> "C18:2n-6(LA)",     std_time |-> 18400],
       [fatty_acid |-> "C18:3n-3(ALA)",    std_time |-> 19193],
       [fatty_acid |-> "C18:4n-3",         std_time |-> 20675],
       [fatty_acid |-> "C20:0",            std_time |-> 21056],
       [fatty_acid |-> "C20:1n-9",         std_time |-> 21644],
       [fatty_acid |-> "C20:3n-3 ",        std_time |-> 22668],
       [fatty_acid |-> "C20:2n-6",         std_time |-> 22726],
       [fatty_acid |-> "C20:4n-3",         std_time |-> 23544],
       [fatty_acid |-> "C20:4n-6(ARA)",    std_time |-> 23811],
       [fatty_acid |-> "C20:5n-3  (EPA)",  std_time |-> 24347],
       [fatty_acid |-> "C22:1n-11",        std_time |-> 26737],
       [fatty_acid |-> "C22:5n-3(DPA)",    std_time |-> 30662],
       [fatty_acid |-> "C22:6n-3(DHA)",    std_time |-> 31955] >>

\* line 85
search_window == 1500

-----------------------------------------------------------------------------
(* The inputs of calculate_shift_and_match.                                *)

MaxPeaks == 2

\* Reference tables passed as std_df: the built-in one, the built-in one
\* without its C14:0 row, and the built-in one in the opposite row order.
Tables == { get_standard_data, Tail(get_standard_data), Reverse(get_standard_data) }

\* Observed times: the two ends of the window of C14:0 (10472 and 13472),
\* the first time past it (13473), C14:0 itself and 0.2 min before and
\* after it, and the midpoint of C16:0 and C16:1, plain and 0.2 min later.
PeakTimes == { 10472, 11772, 11972, 12172, 13472, 13473, 14699, 14899 }

Areas == { 1, 2 }

\* 0.127 is the distance of 12172 to C14:1; 14699 is 0.088 from C16:0 and C16:1
Tolerances == { 0, 127 }

\* The columns of the sample; area_col is None, one of them, or another name.
Columns == { "Time", "Area" }
time_col == "Time"
AreaCols == { "None", "Area", "Other" }

PeakRows == [Time : PeakTimes, Area : Areas]

Samples == UNION { [1..n -> PeakRows] : n \in 0..MaxPeaks }

-----------------------------------------------------------------------------
(* pandas operations used by the function.                                 *)

\* copy as an assignment would behave: the same object under a second name
copy_alias(obj, fresh) == obj

\* DataFrame.copy() (lines 77, 117): the object the copy of obj is, a new one.
copy(obj, fresh) == fresh

\* AnchorValues with a default of 0.0 for a name that is not in the table
AnchorValues_default(std) ==
    LET sel == SelectSeq(std, LAMBDA r : r.fatty_acid = "C14:0")
    IN  IF sel = <<>> THEN <<0>> ELSE [i \in 1..Len(sel) |-> sel[i].std_time]

\* std_df[std_df['fatty acid'] == 'C14:0']['std_time'].values (line 81)
AnchorValues(std) ==
    LET sel == SelectSeq(std, LAMBDA r : r.fatty_acid = "C14:0")
    IN  [i \in 1..Len(sel) |-> sel[i].std_time]

\* Candidates with > and < for >= and <=
Candidates_open(df, c14_std_time) ==
    SelectSeq(df, LAMBDA r : /\ r["Time"] > c14_std_time - 1500
                             /\ r["Time"] < c14_std_time + 1500)

\* the boolean-mask selection of lines 88-91: a new DataFrame
Candidates(df, c14_std_time) ==
    SelectSeq(df, LAMBDA r : /\ r[time_col] >= c14_std_time - search_window
                             /\ r[time_col] <= c14_std_time + search_window)

\* WithTempDiff without .abs()
WithTempDiff_signed(cand, c14_std_time) ==
    [i \in 1..Len(cand) |->
        [Time |-> cand[i].Time, Area |-> cand[i].Area,
         temp_diff |-> cand[i]["Time"] - c14_std_time]]

\* candidates['temp_diff'] = (candidates[time_col] - c14_std_time).abs() (line 104)
WithTempDiff(cand, c14_std_time) ==
    [i \in 1..Len(cand) |->
        [Time |-> cand[i].Time, Area |-> cand[i].Area,
         temp_diff |-> Abs(cand[i][time_col] - c14_std_time)]]

\* SortValuesFirst without ascending=False
SortValuesFirst_asc(df, by, ascending) ==
    { df[i] : i \in { k \in DOMAIN df : \A j \in DOMAIN df : df[k][by] <= df[j][by] } }

\* df.sort_values(by=..., ascending=...).iloc[0] (lines 101, 105): the rows
\* that can come first.  sort_values sorts with kind='quicksort', which is
\* not a stable sort: the order of rows with equal keys is not fixed by
\* pandas, so any row with the extreme key can be the first one.
SortValuesFirst(df, by, ascending) ==
    { df[i] : i \in { k \in DOMAIN df : \A j \in DOMAIN df :
                        IF ascending THEN df[k][by] <= df[j][by]
                                     ELSE df[k][by] >= df[j][by] } }

\* idxmin returning the position of the last minimum
idxmin_last(df, col) ==
    CHOOSE i \in DOMAIN df :
        /\ \A j \in DOMAIN df : df[i][col] <= df[j][col]
        /\ \A j \in DOMAIN df : j > i => df[j][col] > df[i][col]

\* Series.idxmin() (line 122): the position of the first minimum
idxmin(df, col) ==
    CHOOSE i \in DOMAIN df :
        /\ \A j \in DOMAIN df : df[i][col] <= df[j][col]
        /\ \A j \in DOMAIN df : j < i => df[j][col] > df[i][col]

\* CurrentStd with the shift subtracted
RECURSIVE CurrentStd_minus(_, _, _)
CurrentStd_minus(std, sh, row_time) ==
    IF std = <<>> THEN <<>>
    ELSE LET n == Len(std)
         IN  Append(CurrentStd_minus(SubSeq(std, 1, n - 1), sh, row_time),
                    [fatty_acid |-> std[n].fatty_acid, std_time |-> std[n].std_time,
                     calibrated_time |-> std[n].std_time - sh,
                     diff |-> Abs((std[n].std_time - sh) - row_time)])

\* lines 117-119: the copy of std_df with calibrated_time and diff, row by row
RECURSIVE CurrentStd(_, _, _)
CurrentStd(std, sh, row_time) ==
    IF std = <<>> THEN <<>>
    ELSE LET n == Len(std)
         IN  Append(CurrentStd(SubSeq(std, 1, n - 1), sh, row_time),
                    [fatty_acid |-> std[n].fatty_acid, std_time |-> std[n].std_time,
                     calibrated_time |-> std[n].std_time + sh,
                     diff |-> Abs((std[n].std_time + sh) - row_time)])

\* match_row with < for <=
match_row_strict(current_std, tol) ==
    LET closest == current_std[idxmin(current_std, "diff")]
    IN  IF closest.diff < tol
        THEN <<closest.fatty_acid, closest.diff>>
        ELSE <<"unknown", closest.diff>>

\* match_row taking the first entry within the tolerance, not the nearest
match_row_firstfit(current_std, tol) ==
    LET within == { i \in DOMAIN current_std : current_std[i].diff <= tol }
        first == CHOOSE i \in within : \A j \in within : i <= j
        closest == current_std[idxmin(current_std, "diff")]
    IN  IF within # {}
        THEN <<current_std[first].fatty_acid, current_std[first].diff>>
        ELSE <<"unknown", closest.diff>>

\* match_row (lines 112-127), given the table it has built
match_row(current_std, tol) ==
    LET closest == current_std[idxmin(current_std, "diff")]
    IN  IF closest.diff <= tol
        THEN <<closest.fatty_acid, closest.diff>>
        ELSE <<"unknown", closest.diff>>

\* results['匹配结果'] = matched_names (line 138)
AssignMatchResult(df, names) ==
    [i \in 1..Len(df) |->
        [Time |-> df[i].Time, Area |-> df[i].Area, match_result |-> names[i]]]

-----------------------------------------------------------------------------

Init ==
    /\ \E std \in Tables, df \in Samples :
          heap = [o \in {"df_sample", "std_df", "results", "candidates", "current_std"} |->
                    IF o = "df_sample" THEN df ELSE IF o = "std_df" THEN std ELSE <<>>]
    /\ results = "None"
    /\ area_col \in AreaCols
    /\ tolerance \in Tolerances
    /\ pc = "start"
    /\ shift = 0
    /\ found_c14 = FALSE
    /\ c14_actual_time = 0
    /\ matched_names = <<>>
    /\ raised = "None"

\* lines 77-81 when no row of std_df is named C14:0: .values[0] raises
RaiseIndexError ==
    /\ pc = "start"
    /\ AnchorValues(std_df) = <<>>
    /\ results' = copy("df_sample", "results")
    /\ heap' = [heap EXCEPT ![results'] = df_sample]
    /\ raised' = "IndexError"
    /\ pc' = "raised"
    /\ UNCHANGED <<area_col, tolerance, shift, found_c14, c14_actual_time, matched_names>>

\* lines 77-109 and 130-131
FindAnchor ==
    /\ pc = "start"
    /\ AnchorValues(std_df) # <<>>
    /\ LET c14_std_time == AnchorValues(std_df)[1]
           candidates == Candidates(df_sample, c14_std_time)
           with_diff == WithTempDiff(candidates, c14_std_time)
           by_area == area_col # "None" /\ area_col \in Columns
       IN  /\ results' = copy("df_sample", "results")
           /\ IF candidates # <<>>
              THEN /\ \E best_c14 \in (IF by_area
                                       THEN SortValuesFirst(candidates, area_col, FALSE)
                                       ELSE SortValuesFirst(with_diff, "temp_diff", TRUE)) :
                         /\ c14_actual_time' = best_c14[time_col]
                         /\ shift' = best_c14[time_col] - c14_std_time
                   /\ found_c14' = TRUE
                   /\ heap' = [heap EXCEPT ![results'] = df_sample,
                                           !["candidates"] = IF by_area THEN candidates
                                                             ELSE with_diff]
              ELSE /\ c14_actual_time' = 0
                   /\ shift' = 0
                   /\ found_c14' = FALSE
                   /\ heap' = [heap EXCEPT ![results'] = df_sample,
                                           !["candidates"] = candidates]
    /\ matched_names' = <<>>
    /\ pc' = "match"
    /\ UNCHANGED <<area_col, tolerance, raised>>

\* one iteration of the loop of lines 133-136: match_row on the next time
MatchStep ==
    /\ pc = "match"
    /\ Len(matched_names) < Len(df_sample)
    /\ LET t == df_sample[Len(matched_names) + 1][time_col]
           current_std == copy("std_df", "current_std")
           table == CurrentStd(std_df, shift, t)
       IN  /\ heap' = [heap EXCEPT ![current_std] = table]
           /\ matched_names' = Append(matched_names, match_row(table, tolerance)[1])
    /\ UNCHANGED <<results, area_col, tolerance, pc, shift, found_c14,
                   c14_actual_time, raised>>

\* lines 138-141
Return ==
    /\ pc = "match"
    /\ Len(matched_names) = Len(df_sample)
    /\ heap' = [heap EXCEPT ![results] = AssignMatchResult(heap[results], matched_names)]
    /\ pc' = "done"
    /\ UNCHANGED <<results, area_col, tolerance, shift, found_c14,
                   c14_actual_time, matched_names, raised>>

Next ==
    \/ RaiseIndexError
    \/ FindAnchor
    \/ MatchStep
    \/ Return

Spec == Init /\ [][Next]_vars

-----------------------------------------------------------------------------
(* Vocabulary of the properties.  These are stated from the inputs and the *)
(* outputs of the function and do not use the operators above.             *)

\* the function is past the anchor search (shift and found_c14 are final)
Calibrated == pc \in {"match", "done"}

\* the expected time of the anchor: the std_time of the first C14:0 row
AnchorPresent == \E e \in DOMAIN std_df : std_df[e].fatty_acid = "C14:0"
AnchorExpected ==
    LET e == CHOOSE e \in DOMAIN std_df :
                 /\ std_df[e].fatty_acid = "C14:0"
                 /\ \A f \in DOMAIN std_df : f < e => std_df[f].fatty_acid # "C14:0"
    IN  std_df[e].std_time

\* the peaks inside the inclusive search window of the anchor
InWindow(i) ==
    /\ df_sample[i].Time >= AnchorExpected - 1500
    /\ df_sample[i].Time <= AnchorExpected + 1500
WindowPeaks == { i \in DOMAIN df_sample : InWindow(i) }

\* an area column was supplied
AreaSupplied == area_col = "Area"

\* |std_time + offset - t| of reference entry e
Residual(e, offset, t) == Abs(std_df[e].std_time + offset - t)

\* the least residual of the first n reference entries from t
RECURSIVE LeastResidual(_, _, _)
LeastResidual(n, offset, t) ==
    IF n = 1 THEN Residual(1, offset, t)
    ELSE LET m == LeastResidual(n - 1, offset, t)
             r == Residual(n, offset, t)
         IN  IF r < m THEN r ELSE m

\* the label of t under the offset and the tolerance: the first entry in
\* table order at the least residual when that is within the tolerance,
\* unmatched otherwise
LabelOf(offset, tol, t) ==
    LET m == LeastResidual(Len(std_df), offset, t)
        e == CHOOSE e \in DOMAIN std_df :
                 /\ Residual(e, offset, t) = m
                 /\ \A f \in DOMAIN std_df : f < e => Residual(f, offset, t) # m
    IN  IF m <= tol THEN std_df[e].fatty_acid ELSE "unknown"

\* the returned DataFrame
Returned == heap[results]

-----------------------------------------------------------------------------
(* C1: the label returned for a peak at time t is the name of a reference *)
(* entry at the least residual |std_time + shift - t| when that residual   *)
(* is <= tolerance, and "unknown" when it is > tolerance.                  *)
C1_NearestWithinTolerance ==
    pc = "done" =>
        \A k \in DOMAIN df_sample :
            LET t == df_sample[k].Time
                m == LeastResidual(Len(std_df), shift, t)
            IN  IF m <= tolerance
                THEN \E e \in DOMAIN std_df :
                        /\ Residual(e, shift, t) = m
                        /\ Returned[k].match_result = std_df[e].fatty_acid
                ELSE Returned[k].match_result = "unknown"

\* tolerance 0 and a non-zero shift: a peak at an exact calibrated time is
\* matched and a peak off every calibrated time is not
C1_Witness ==
    /\ pc = "done"
    /\ tolerance = 0
    /\ shift # 0
    /\ \E k \in DOMAIN matched_names : matched_names[k] # "unknown"
    /\ \E k \in DOMAIN matched_names : matched_names[k] = "unknown"

(* C2: a peak at the same least residual from two or more reference        *)
(* entries, that residual being within the tolerance, is labelled with the *)
(* one of them that comes first in the order of the reference table.       *)
C2_TieFirstInTableOrder ==
    pc = "done" =>
        \A k \in DOMAIN df_sample :
            LET t == df_sample[k].Time
                m == LeastResidual(Len(std_df), shift, t)
            IN  \A e \in DOMAIN std_df :
                    ( /\ Residual(e, shift, t) = m
                      /\ m <= tolerance
                      /\ \E f \in DOMAIN std_df : f # e /\ Residual(f, shift, t) = m
                      /\ \A f \in DOMAIN std_df : f < e => Residual(f, shift, t) # m )
                    => Returned[k].match_result = std_df[e].fatty_acid

\* the table in descending order of time and a shift of 0.2: the peak at
\* 14.899 is 0.088 from C16:1 and from C16:0, and C16:1 is the first of them
C2_Witness ==
    /\ pc = "done"
    /\ std_df[1].fatty_acid # "C14:0"
    /\ shift = 200
    /\ \E k \in DOMAIN matched_names :
          /\ df_sample[k].Time = 14899
          /\ matched_names[k] = "C16:1"

(* C3: the anchor is reported found exactly when some peak lies in the     *)
(* inclusive window of 1.5 around the expected anchor time; when none      *)
(* does, shift is 0 and the returned labels are those of matching against  *)
(* the reference times as they are.                                        *)
C3_FoundIffPeakInWindow ==
    /\ Calibrated => (found_c14 <=> WindowPeaks # {})
    /\ (Calibrated /\ WindowPeaks = {}) => shift = 0
    /\ (pc = "done" /\ WindowPeaks = {}) =>
          \A i \in DOMAIN df_sample :
              Returned[i].match_result = LabelOf(0, tolerance, df_sample[i].Time)

\* no peak in the window, and a peak that is matched all the same
C3_Witness ==
    /\ pc = "done"
    /\ ~found_c14
    /\ \E i \in DOMAIN df_sample : df_sample[i].Time = 13473
    /\ \E i \in DOMAIN df_sample : Returned[i].match_result = "C16:0"

(* C4: with an area column and a peak in the window, the anchor is a       *)
(* window peak of the greatest area, shift is its time minus the expected  *)
(* anchor time, and every label is that of matching against the reference  *)
(* times all moved by that one shift.                                      *)
C4_AnchorIsMaxArea ==
    (Calibrated /\ AreaSupplied /\ WindowPeaks # {}) =>
        /\ \E i \in WindowPeaks :
              /\ \A j \in WindowPeaks : df_sample[i].Area >= df_sample[j].Area
              /\ c14_actual_time = df_sample[i].Time
        /\ shift = c14_actual_time - AnchorExpected
        /\ pc = "done" =>
              \A k \in DOMAIN df_sample :
                  Returned[k].match_result = LabelOf(shift, tolerance, df_sample[k].Time)

\* the anchor has the greater area and another window peak is closer in time
C4_Witness ==
    /\ pc = "done"
    /\ AreaSupplied
    /\ found_c14
    /\ \E j \in WindowPeaks :
          Abs(df_sample[j].Time - AnchorExpected) < Abs(c14_actual_time - AnchorExpected)
    /\ \E k \in DOMAIN matched_names :
          df_sample[k].Time # c14_actual_time /\ matched_names[k] # "unknown"

ToleranceGrid == Tolerances \cup {88, 500}

(* C7: for the table, the peaks and the shift of a run and tolerances      *)
(* t1 <= t2, a peak that match_row labels with a compound under t1 gets    *)
(* the same compound under t2.                                             *)
C7_ToleranceMonotone ==
    pc = "done" =>
        \A i \in DOMAIN df_sample :
            LET table == CurrentStd(std_df, shift, df_sample[i].Time)
                labels == { <<tol, match_row(table, tol)[1]>> : tol \in ToleranceGrid }
            IN  \A l1 \in labels : \A l2 \in labels :
                    (l1[1] <= l2[1] /\ l1[2] # "unknown") => l2[2] = l1[2]

\* a peak with an earlier entry farther away than the nearest one: 12.172
\* is 0.127 from C14:1 and 0.2 from C14:0; it is matched under the run's
\* tolerance and unmatched under a smaller one
C7_Witness ==
    /\ pc = "done"
    /\ shift = 0
    /\ tolerance = 127
    /\ std_df[1].fatty_acid = "C14:0"
    /\ \E i \in DOMAIN df_sample :
          /\ df_sample[i].Time = 12172
          /\ Returned[i].match_result = "C14:1"
          /\ match_row(CurrentStd(std_df, shift, 12172), 88)[1] = "unknown"

(* C8: no step of the function changes the reference table or the input   *)
(* peaks, and what it returns has one row per input peak, in input order,  *)
(* with the peak's time and area and the label matched for it.             *)
C8_InputsUnchanged ==
    [][ /\ df_sample' = df_sample
        /\ std_df' = std_df
        /\ pc' = "done" =>
              /\ Len(heap'[results']) = Len(df_sample)
              /\ \A i \in DOMAIN df_sample :
                    /\ heap'[results'][i].Time = df_sample[i].Time
                    /\ heap'[results'][i].Area = df_sample[i].Area
                    /\ heap'[results'][i].match_result = matched_names[i]
      ]_vars

\* a returned run that wrote temp_diff to its candidates and labelled peaks
C8_Witness ==
    /\ pc = "done"
    /\ area_col = "None"
    /\ Len(df_sample) >= 2
    /\ Len(heap["candidates"]) >= 1
    /\ \A i \in DOMAIN df_sample : DOMAIN df_sample[i] = {"Time", "Area"}
    /\ \A e \in DOMAIN std_df : DOMAIN std_df[e] = {"fatty_acid", "std_time"}
    /\ \A i \in DOMAIN Returned : DOMAIN Returned[i] = {"Time", "Area", "match_result"}

(* C9: without an area column (None, or not a column of the sample) and    *)
(* with a peak in the window, the anchor is a window peak closest to the   *)
(* expected anchor time, shift is its time minus the expected time, and    *)
(* |shift| is the least distance of a window peak and at most 1.5.         *)
C9_AnchorIsClosest ==
    (Calibrated /\ ~AreaSupplied /\ WindowPeaks # {}) =>
        /\ \E i \in WindowPeaks : c14_actual_time = df_sample[i].Time
        /\ shift = c14_actual_time - AnchorExpected
        /\ \A j \in WindowPeaks : Abs(shift) <= Abs(df_sample[j].Time - AnchorExpected)
        /\ Abs(shift) <= 1500

\* area_col names no column; the anchor is the closer peak, before the
\* expected time, and a farther window peak has the greater area
C9_Witness ==
    /\ pc = "done"
    /\ area_col = "Other"
    /\ found_c14
    /\ shift < 0
    /\ \E i \in WindowPeaks : \E j \in WindowPeaks :
          /\ df_sample[i].Time = c14_actual_time
          /\ df_sample[j].Area > df_sample[i].Area
          /\ Abs(df_sample[j].Time - AnchorExpected) > Abs(shift)

(* C10: with the built-in table, when the anchor is found every peak at    *)
(* the time of the anchor peak is labelled C14:0, whatever the tolerance.  *)
C10_AnchorPeakLabelledC14 ==
    (pc = "done" /\ std_df = get_standard_data /\ found_c14) =>
        \A k \in DOMAIN df_sample :
            df_sample[k].Time = c14_actual_time => Returned[k].match_result = "C14:0"

\* tolerance 0, a shifted anchor and a second peak at the same time
C10_Witness ==
    /\ pc = "done"
    /\ std_df = get_standard_data
    /\ found_c14
    /\ tolerance = 0
    /\ shift # 0
    /\ Len(df_sample) = 2
    /\ \A i \in DOMAIN df_sample :
          df_sample[i].Time = c14_actual_time /\ Returned[i].match_result = "C14:0"

====
